---- MODULE Spec2Model ----
(***************************************************************************)
(* Recurring to-do scheduling subsystem of fitapp: the /api/todo handler   *)
(* (src/pages/api/todo.ts) over the single Todo table.                     *)
(*                                                                         *)
(* Strings that the handler parses or formats (title, timeOfDay, limit)    *)
(* are sequences of one-character strings, so that split / parseInt /      *)
(* padStart are computed, not assumed.  A timestamp is a number of minutes *)
(* since 00:00 of server-local day 0 (every dueAt the handler writes has   *)
(* seconds and milliseconds 0).  An optional value is Null or Some(x).     *)
(***************************************************************************)
EXTENDS Integers, Sequences, FiniteSets, TLC

Null == << >>
Some(x) == << x >>
IsSome(o) == Len(o) = 1
Val(o) == o[1]

----------------------------------------------------------------------------
(* JavaScript string and Date primitives the handler uses *)

Digits == <<"0", "1", "2", "3", "4", "5", "6", "7", "8", "9">>

IsDigit(c) == \E i \in 1..10 : Digits[i] = c

DigitVal(c) == (CHOOSE i \in 1..10 : Digits[i] = c) - 1

DigitChar(d) == Digits[d + 1]

IsSpace(c) == c = " "

\* String.prototype.split(':')
RECURSIVE SplitColon(_)
SplitColon(s) ==
  IF \E i \in 1..Len(s) : s[i] = ":"
  THEN LET i == CHOOSE k \in 1..Len(s) : s[k] = ":" /\ \A j \in 1..(k - 1) : s[j] # ":"
       IN  <<SubSeq(s, 1, i - 1)>> \o SplitColon(SubSeq(s, i + 1, Len(s)))
  ELSE <<s>>

RECURSIVE SkipSpaces(_)
SkipSpaces(s) ==
  IF Len(s) > 0 /\ IsSpace(s[1]) THEN SkipSpaces(Tail(s)) ELSE s

\* value of the longest prefix of decimal digits of s, acc being the value so far
RECURSIVE DigitRun(_, _)
DigitRun(s, acc) ==
  IF Len(s) > 0 /\ IsDigit(s[1]) THEN DigitRun(Tail(s), 10 * acc + DigitVal(s[1])) ELSE acc

\* parseInt(v) with no radix: leading white space, an optional sign, then decimal
\* digits up to the first other character; NaN (Null here) when there is no digit.
\* (No string of the model holds "x", so the 0x prefix never arises.)
ParseInt(v) ==
  LET t    == SkipSpaces(v)
      neg  == Len(t) > 0 /\ t[1] = "-"
      body == IF Len(t) > 0 /\ t[1] \in {"-", "+"} THEN Tail(t) ELSE t
  IN  IF Len(body) > 0 /\ IsDigit(body[1])
      THEN Some(IF neg THEN 0 - DigitRun(body, 0) ELSE DigitRun(body, 0))
      ELSE Null

\* const [hh, mm] = s.split(':').map((v) => parseInt(v)) : a missing part is
\* undefined, which, like NaN, is Null here
ParseParts(s) ==
  LET parts == SplitColon(s)
  IN  [hh |-> ParseInt(parts[1]),
       mm |-> IF Len(parts) >= 2 THEN ParseInt(parts[2]) ELSE Null]

\* x || d for a number-or-NaN-or-undefined x: 0, NaN and undefined are falsy
OrElse(x, d) == IF IsSome(x) /\ Val(x) # 0 THEN Val(x) ELSE d

\* String(n).padStart(2, '0') for 0 <= n <= 99
PadStart2(n) == IF n < 10 THEN <<"0", DigitChar(n)>> ELSE <<DigitChar(n \div 10), DigitChar(n % 10)>>

\* `${hh}:${mm}` of a time, also Date.prototype.toTimeString().slice(0, 5)
FormatHM(h, m) == PadStart2(h) \o <<":">> \o PadStart2(m)

\* new Date(y, m, d, 0, 0, 0, 0) of the day of a timestamp
StartOfDay(day) == day * 1440

\* new Date(y, m, d, 23, 59, 59, 999), at the model's resolution of a minute
EndOfDay(day) == day * 1440 + 1439

\* d.setHours(h, m, 0, 0) on a date of the given day: out-of-range parts carry over
SetHours(day, h, m) == StartOfDay(day) + 60 * h + m

DayOf(t) == t \div 1440
HourOf(t) == (t % 1440) \div 60
MinuteOf(t) == t % 60

----------------------------------------------------------------------------
(* Bounds and inputs *)

\* records ever created
MaxIds == 3
\* server-local days 0..MaxDay
MaxDay == 1
\* requests answered
MaxOps == 4

Ids == 1..MaxIds

\* wall-clock times <<hour, minute>> at which requests arrive in SpecTimes
ClockTimes == {<<0, 15>>, <<18, 0>>}

T0730 == <<"0", "7", ":", "3", "0">>
T0015 == <<"0", "0", ":", "1", "5">>
T2500 == <<"2", "5", ":", "0", "0">>
TJunk == <<"a", "b">>
TimeStrings == {T0730, T0015, T2500, TJunk}

TitleOK == <<"S">>
TitleEmpty == << >>

VARIABLES
  store,    \* the Todo table: a set of rows
  nextId,   \* the id the next created row gets
  now,      \* the server clock: [day, h, m]
  resp,     \* the last response sent, with the request it answers
  flight    \* the requests in flight, one slot each (SpecSteps only)

vars == <<store, nextId, now, resp, flight>>

Slots == {"s1", "s2"}

----------------------------------------------------------------------------
(* The Todo table *)

\* column defaults of the Todo model
TodoDefaults ==
  [notes |-> Null, tags |-> << >>, completed |-> FALSE, dueAt |-> Null,
   timeOfDay |-> Null, recurrence |-> "NONE", isTemplate |-> FALSE, templateId |-> Null]

\* prisma.todo.create({ data }): the row created, given the id the store assigns
CreateRow(id, data) == [id |-> id] @@ data @@ TodoDefaults

\* the table after delete / deleteMany removed the rows matched: templateId is a
\* weak reference, no other row is touched
DeleteRows(st, rows) == st \ rows

\* rows in the order findMany returns them (creation order)
RECURSIVE RowsById(_)
RowsById(rows) ==
  IF rows = {} THEN << >>
  ELSE LET r == CHOOSE x \in rows : \A y \in rows : x.id <= y.id
       IN  <<r>> \o RowsById(rows \ {r})

\* faulty variant: the userId predicate left out of the where clause
FindById(st, userId, id) == {r \in st : r.id = id}

\* where: { id, userId }
FindOwned(st, userId, id) == {r \in st : r.id = id /\ r.userId = userId}

\* where: { userId, isTemplate: true, recurrence: 'DAILY' }
DailyTemplates(st, userId) ==
  {r \in st : r.userId = userId /\ r.isTemplate /\ r.recurrence = "DAILY"}

\* where: { userId, isTemplate: false, templateId, dueAt: { gte: startOfDay, lte: endOfDay } }
TodayInstances(st, userId, templateId, day) ==
  {r \in st : /\ r.userId = userId
              /\ ~r.isTemplate
              /\ r.templateId = Some(templateId)
              /\ IsSome(r.dueAt)
              /\ Val(r.dueAt) >= StartOfDay(day)
              /\ Val(r.dueAt) <= EndOfDay(day)}

----------------------------------------------------------------------------
(* GET: the reconciliation pass and the listing *)

T0900 == <<"0", "9", ":", "0", "0">>

\* tpl.timeOfDay || '09:00' : null and the empty string are falsy
TimeOfDayOrDefault(tod) == IF IsSome(tod) /\ Val(tod) # << >> THEN Val(tod) ELSE T0900

\* dueAt = new Date(startOfDay); dueAt.setHours(hh || 9, mm || 0, 0, 0)
InstanceDueAt(tod, day) ==
  LET p == ParseParts(TimeOfDayOrDefault(tod))
  IN  SetHours(day, OrElse(p.hh, 9), OrElse(p.mm, 0))

\* the data of prisma.todo.create in the reconciliation loop
InstanceData(tpl, userId, day) ==
  [userId     |-> userId,
   title      |-> tpl.title,
   notes      |-> tpl.notes,
   dueAt      |-> Some(InstanceDueAt(tpl.timeOfDay, day)),
   tags       |-> tpl.tags,
   templateId |-> Some(tpl.id),
   isTemplate |-> FALSE,
   recurrence |-> "NONE"]

\* if (!exists) create : one turn of the loop, on table st with next id nid
ReconcileOne(st, nid, tpl, userId, day) ==
  IF TodayInstances(st, userId, tpl.id, day) # {}
  THEN [store |-> st, nextId |-> nid]
  ELSE [store |-> st \cup {CreateRow(nid, InstanceData(tpl, userId, day))}, nextId |-> nid + 1]

\* for (const tpl of templates) { ... } run to its end
RECURSIVE Reconcile(_, _, _, _, _)
Reconcile(st, nid, tpls, userId, day) ==
  IF tpls = << >> THEN [store |-> st, nextId |-> nid]
  ELSE LET one == ReconcileOne(st, nid, Head(tpls), userId, day)
       IN  Reconcile(one.store, one.nextId, Tail(tpls), userId, day)

\* (a.dueAt ? time : Infinity) - (b.dueAt ? time : Infinity) > 0 : a sorts after b.
\* Infinity - Infinity is NaN, which sort takes as 0.
SortsAfter(a, b) ==
  IF IsSome(a.dueAt)
  THEN IsSome(b.dueAt) /\ Val(a.dueAt) > Val(b.dueAt)
  ELSE IsSome(b.dueAt)

\* Array.prototype.sort (stable) with that comparator, as an insertion sort
RECURSIVE InsertSorted(_, _)
InsertSorted(x, sorted) ==
  IF sorted = << >> THEN <<x>>
  ELSE LET last == sorted[Len(sorted)]
       IN  IF SortsAfter(last, x)
           THEN InsertSorted(x, SubSeq(sorted, 1, Len(sorted) - 1)) \o <<last>>
           ELSE sorted \o <<x>>

\* faulty variant: the rows left in the order findMany returned them
Unsorted(rows) == rows

RECURSIVE SortTodos(_)
SortTodos(rows) ==
  IF rows = << >> THEN << >>
  ELSE InsertSorted(rows[Len(rows)], SortTodos(SubSeq(rows, 1, Len(rows) - 1)))

DefaultLimit == <<"2", "0", "0">>

\* faulty variant: the completed filter of the query dropped
ListUnfiltered(st, userId, completed) == {r \in st : r.userId = userId /\ ~r.isTemplate}

\* where = { userId, isTemplate: false } plus completed when the query gives it
ListWhere(st, userId, completed) ==
  {r \in st : /\ r.userId = userId
              /\ ~r.isTemplate
              /\ (IsSome(completed) => r.completed = (Val(completed) = "true"))}

\* findMany({ where, take }) for take >= 0, then the sort
ListTodos(st, userId, completed, take) ==
  LET rows == RowsById(ListWhere(st, userId, completed))
  IN  SortTodos(SubSeq(rows, 1, IF take < Len(rows) THEN take ELSE Len(rows)))

----------------------------------------------------------------------------
(* POST, PUT and DELETE as functions of the table *)

\* todoSchema.safeParse succeeds: title: z.string().min(1)
ValidTodo(body) == Len(body.title) >= 1

\* faulty variant: the isTemplate flag of the body not looked at
RecurrenceOnly(body) == body.recurrence = Some("DAILY")

\* parsed.data.recurrence === 'DAILY' || req.body.isTemplate === true
IsTemplatePost(body) == body.recurrence = Some("DAILY") \/ body.isTemplate = Some(TRUE)

\* String(n).padStart(2, '0') of getHours()/getMinutes(): "NaN" for an Invalid Date
TemplateTimeOfDay(body, clock) ==
  IF IsSome(body.dueDate)
  THEN IF Val(body.dueDate).valid
       THEN FormatHM(HourOf(Val(body.dueDate).t), MinuteOf(Val(body.dueDate).t))
       ELSE <<"N", "a", "N", ":", "N", "a", "N">>
  ELSE FormatHM(clock.h, clock.m)

\* the data of the template branch's create
TemplateData(body, userId, clock) ==
  [userId     |-> userId,
   title      |-> body.title,
   notes      |-> body.notes,
   timeOfDay  |-> Some(TemplateTimeOfDay(body, clock)),
   recurrence |-> "DAILY",
   isTemplate |-> TRUE,
   tags       |-> IF IsSome(body.tags) THEN Val(body.tags) ELSE << >>]

\* parsed.data.timeOfDay || now.toTimeString().slice(0, 5)
OneOffTimeStr(body, clock) ==
  IF IsSome(body.timeOfDay) /\ Val(body.timeOfDay) # << >>
  THEN Val(body.timeOfDay)
  ELSE FormatHM(clock.h, clock.m)

\* dueAt = new Date(); dueAt.setHours(hh || now.getHours(), mm || now.getMinutes(), 0, 0)
OneOffDueAt(timeStr, clock) ==
  LET p == ParseParts(timeStr)
  IN  SetHours(clock.day, OrElse(p.hh, clock.h), OrElse(p.mm, clock.m))

\* the data of the one-off branch's create
OneOffData(body, userId, clock) ==
  [userId     |-> userId,
   title      |-> body.title,
   notes      |-> body.notes,
   dueAt      |-> Some(OneOffDueAt(OneOffTimeStr(body, clock), clock)),
   timeOfDay  |-> Some(OneOffTimeStr(body, clock)),
   recurrence |-> "NONE",
   isTemplate |-> FALSE,
   tags       |-> IF IsSome(body.tags) THEN Val(body.tags) ELSE << >>,
   completed  |-> IF IsSome(body.completed) THEN Val(body.completed) ELSE FALSE]

PostData(body, userId, clock) ==
  IF IsTemplatePost(body) THEN TemplateData(body, userId, clock) ELSE OneOffData(body, userId, clock)

\* dueAt = new Date(); dueAt.setHours(hh || 0, mm || 0, 0, 0)
PutDueAt(timeStr, clock) ==
  LET p == ParseParts(timeStr)
  IN  SetHours(clock.day, OrElse(p.hh, 0), OrElse(p.mm, 0))

\* faulty variant: the update detaches the row from its template
DetachingUpdate(row, body, clock) == [row EXCEPT !.templateId = Null]

\* the row after prisma.todo.update({ data: updates }): a field of the body that is
\* absent (Null) leaves the column alone
ApplyUpdates(row, body, clock) ==
  [row EXCEPT
     !.title      = IF IsSome(body.title) THEN Val(body.title) ELSE @,
     !.notes      = IF IsSome(body.notes) THEN Val(body.notes) ELSE @,
     !.tags       = IF IsSome(body.tags) THEN Val(body.tags) ELSE @,
     !.completed  = IF IsSome(body.completed) THEN Val(body.completed) ELSE @,
     !.timeOfDay  = IF IsSome(body.timeOfDay) THEN Some(Val(body.timeOfDay)) ELSE @,
     !.dueAt      = IF IsSome(body.timeOfDay) THEN Some(PutDueAt(Val(body.timeOfDay), clock)) ELSE @,
     !.recurrence = IF IsSome(body.recurrence) THEN Val(body.recurrence) ELSE @,
     !.isTemplate = IF IsSome(body.isTemplate) THEN Val(body.isTemplate) ELSE @]

\* the where clause of prisma.todo.update
UpdateTargets(st, userId, id) == FindOwned(st, userId, id)

\* faulty variant: the deleteMany of the instances left out
NoInstances(st, userId, templateId) == {}

\* deleteMany({ where: { templateId, userId } })
InstancesOf(st, userId, templateId) ==
  {r \in st : r.templateId = Some(templateId) /\ r.userId = userId}

\* faulty variant: the template deleted without its children
TemplateOnly(st, userId, id) == {r \in st : r.id = id /\ r.userId = userId}

\* deleteMany({ where: { OR: [{ id }, { templateId: id }], userId } })
TemplateAndChildren(st, userId, id) ==
  {r \in st : (r.id = id \/ r.templateId = Some(id)) /\ r.userId = userId}

\* faulty variant: a row without templateId always deleted with its children
AlwaysCascade(todo) == IF IsSome(todo.templateId) THEN "instance" ELSE "template"

\* the branch DELETE takes for the row it found
DeleteBranch(todo) ==
  IF IsSome(todo.templateId) THEN "instance"
  ELSE IF todo.isTemplate THEN "template"
  ELSE "oneoff"

\* DELETE run to its end on table st: the table after it and the status sent.
\* prisma.todo.delete of a row that is not there throws, which the catch answers 500.
DeleteEffect(st, userId, id) ==
  LET found == FindOwned(st, userId, id)
  IN  IF found = {} THEN [store |-> st, status |-> 404]
      ELSE LET todo == CHOOSE r \in found : TRUE
               tid  == Val(todo.templateId)
           IN  CASE DeleteBranch(todo) = "instance" ->
                      IF FindOwned(st, userId, tid) = {}
                      THEN [store |-> st, status |-> 500]
                      ELSE [store  |-> LET st1 == DeleteRows(st, FindOwned(st, userId, tid))
                                       IN  DeleteRows(st1, InstancesOf(st1, userId, tid)),
                            status |-> 200]
                [] DeleteBranch(todo) = "template" ->
                      [store |-> DeleteRows(st, TemplateAndChildren(st, userId, id)), status |-> 200]
                [] OTHER ->
                      [store |-> DeleteRows(st, found), status |-> 200]

----------------------------------------------------------------------------
(* Requests the model issues *)

\* a dueDate string: the instant it denotes, or an unparsable string
DueDates == {Null, Some([valid |-> TRUE, t |-> SetHours(0, 7, 30)]), Some([valid |-> FALSE, t |-> 0])}

PostBody(title, recurrence, isTemplate, timeOfDay, dueDate, completed) ==
  [title |-> title, notes |-> Null, tags |-> Null, recurrence |-> recurrence,
   isTemplate |-> isTemplate, timeOfDay |-> timeOfDay, dueDate |-> dueDate,
   completed |-> completed]

\* what the create dialog sends: title, recurrence, timeOfDay
DialogPosts(times) ==
  {PostBody(TitleOK, Some(r), Null, Some(t), Null, Null) : r \in {"NONE", "DAILY"}, t \in times}

NoUpdate ==
  [id |-> Null, title |-> Null, notes |-> Null, tags |-> Null, completed |-> Null,
   timeOfDay |-> Null, recurrence |-> Null, isTemplate |-> Null]

PutWithId == {[NoUpdate EXCEPT !.id = Some(i)] : i \in Ids}

PutCompleted == {[b EXCEPT !.completed = Some(TRUE)] : b \in PutWithId}

PutTimeOfDay(times) == {[b EXCEPT !.timeOfDay = Some(t)] : b \in PutWithId, t \in times}

PutIsTemplate == {[b EXCEPT !.isTemplate = Some(f)] : b \in PutWithId, f \in BOOLEAN}

DeleteIds == {Some(i) : i \in Ids}

----------------------------------------------------------------------------
(* State *)

Idle == [pc |-> "idle"]

NoRequest == [n |-> 0, caller |-> "", method |-> "", status |-> 0, day |-> 0, id |-> Null,
              body |-> Null, completed |-> Null, todos |-> << >>, threw |-> "", pre |-> {}]

\* the response to a request, with the request it answers: n counts the responses
\* sent, threw names the store call that threw ("" when none did), pre is the table
\* as the request found it and day the server-local day it ran on
RespondFrom(pre, day, caller, method, status, id, body, completed, todos, threw) ==
  [n |-> resp.n + 1, caller |-> caller, method |-> method, status |-> status, day |-> day,
   id |-> id, body |-> body, completed |-> completed, todos |-> todos, threw |-> threw,
   pre |-> pre]

\* the response of a request that ran in one step
Respond(caller, method, status, id, body, completed, todos, threw) ==
  RespondFrom(store, now.day, caller, method, status, id, body, completed, todos, threw)

\* the table is empty and the clock shows one of the given times of day 0
InitAt(times) ==
  /\ store = {}
  /\ nextId = 1
  /\ now \in {[day |-> 0, h |-> t[1], m |-> t[2]] : t \in times}
  /\ resp = NoRequest
  /\ flight = [s \in Slots |-> Idle]

\* a request may be answered
MayRespond == resp.n < MaxOps

----------------------------------------------------------------------------
(* The handler, one request at a time *)

\* faulty variant: the session check left out, the request served for no user
Unguarded(method) ==
  /\ MayRespond
  /\ resp' = Respond("", method, 200, Null, Null, Null, RowsById(store), "")
  /\ UNCHANGED <<store, nextId, now, flight>>

\* no session: 401 before the store is touched
Unauthorized(method) ==
  /\ MayRespond
  /\ resp' = Respond("", method, 401, Null, Null, Null, << >>, "")
  /\ UNCHANGED <<store, nextId, now, flight>>

\* default: 405
MethodNotAllowed(u) ==
  /\ MayRespond
  /\ resp' = Respond(u, "PATCH", 405, Null, Null, Null, << >>, "")
  /\ UNCHANGED <<store, nextId, now, flight>>

\* take: parseInt(String(limit)), limit = '200' when the query gives none
TakeOf(limit) == ParseInt(IF IsSome(limit) THEN Val(limit) ELSE DefaultLimit)

\* the response of GET once the reconciliation pass is through, on table st:
\* a take that is NaN makes findMany throw
GetResponse(pre, day, st, u, completed, limit) ==
  LET take == TakeOf(limit)
  IN  IF IsSome(take) /\ Val(take) >= 0
      THEN RespondFrom(pre, day, u, "GET", 200, Null, Null, completed,
                       ListTodos(st, u, completed, Val(take)), "")
      ELSE RespondFrom(pre, day, u, "GET", 500, Null, Null, completed, << >>, "findMany")

Get(u, completed, limit) ==
  LET tpls == RowsById(DailyTemplates(store, u))
      rec  == Reconcile(store, nextId, tpls, u, now.day)
  IN  /\ MayRespond
      /\ rec.nextId <= MaxIds + 1
      /\ store' = rec.store
      /\ nextId' = rec.nextId
      /\ resp' = GetResponse(store, now.day, rec.store, u, completed, limit)
      /\ UNCHANGED <<now, flight>>

Post(u, body) ==
  /\ MayRespond
  /\ IF ValidTodo(body)
     THEN /\ nextId <= MaxIds
          /\ LET todo == CreateRow(nextId, PostData(body, u, now))
             IN  /\ store' = store \cup {todo}
                 /\ resp' = Respond(u, "POST", 201, Null, Some(body), Null, <<todo>>, "")
          /\ nextId' = nextId + 1
     ELSE /\ resp' = Respond(u, "POST", 400, Null, Some(body), Null, << >>, "")
          /\ UNCHANGED <<store, nextId>>
  /\ UNCHANGED <<now, flight>>

Put(u, body) ==
  /\ MayRespond
  /\ IF ~IsSome(body.id)
     THEN /\ resp' = Respond(u, "PUT", 400, Null, Some(body), Null, << >>, "")
          /\ UNCHANGED store
     ELSE LET found == UpdateTargets(store, u, Val(body.id))
          IN  IF found = {}
              THEN \* update of a row that is not there throws: the catch answers 500
                   /\ resp' = Respond(u, "PUT", 500, body.id, Some(body), Null, << >>, "update")
                   /\ UNCHANGED store
              ELSE LET row  == CHOOSE r \in found : TRUE
                       todo == ApplyUpdates(row, body, now)
                   IN  /\ store' = (store \ {row}) \cup {todo}
                       /\ resp' = Respond(u, "PUT", 200, body.id, Some(body), Null, <<todo>>, "")
  /\ UNCHANGED <<nextId, now, flight>>

Delete(u, id) ==
  /\ MayRespond
  /\ IF ~IsSome(id)
     THEN /\ resp' = Respond(u, "DELETE", 400, id, Null, Null, << >>, "")
          /\ UNCHANGED store
     ELSE LET eff == DeleteEffect(store, u, Val(id))
          IN  /\ store' = eff.store
              /\ resp' = Respond(u, "DELETE", eff.status, id, Null, Null, << >>,
                                 IF eff.status = 500 THEN "delete" ELSE "")
  /\ UNCHANGED <<nextId, now, flight>>

\* the wall clock moves on within the day
Tick(times) ==
  /\ \E t \in times :
        /\ SetHours(0, t[1], t[2]) > SetHours(0, now.h, now.m)
        /\ now' = [now EXCEPT !.h = t[1], !.m = t[2]]
  /\ UNCHANGED <<store, nextId, resp, flight>>

\* midnight passes
NextDay(times) ==
  /\ now.day < MaxDay
  /\ \E t \in times : now' = [day |-> now.day + 1, h |-> t[1], m |-> t[2]]
  /\ UNCHANGED <<store, nextId, resp, flight>>

----------------------------------------------------------------------------
(* Spec: two users, one request at a time, requests arriving at 18:00 *)

Users == {"A", "B"}

Evening == {<<18, 0>>}

PostBodies == DialogPosts({T0730}) \cup {PostBody(TitleEmpty, Null, Null, Null, Null, Null)}

PutBodies == PutCompleted \cup PutIsTemplate

Init == InitAt(Evening)

Next ==
  \/ Unauthorized("GET")
  \/ \E u \in Users : Get(u, Null, Null)
  \/ \E u \in Users, b \in PostBodies : Post(u, b)
  \/ \E u \in Users, b \in PutBodies : Put(u, b)
  \/ \E u \in Users, i \in DeleteIds : Delete(u, i)
  \/ NextDay(Evening)

Spec == Init /\ [][Next]_vars

----------------------------------------------------------------------------
(* SpecTimes: one user, requests arriving at several times of day, every
   timeOfDay string *)

TimesPostBodies ==
  DialogPosts(TimeStrings)
  \cup {PostBody(TitleOK, Some("DAILY"), Null, Null, d, Null) : d \in DueDates}
  \cup {PostBody(TitleOK, Null, Null, Null, Null, Null)}

TimesPutBodies == {NoUpdate} \cup PutTimeOfDay(TimeStrings)

InitTimes == InitAt(ClockTimes)

NextTimes ==
  \/ MethodNotAllowed("A")
  \/ Get("A", Null, Null)
  \/ \E b \in TimesPostBodies : Post("A", b)
  \/ \E b \in TimesPutBodies : Put("A", b)
  \/ \E i \in {Null} \cup DeleteIds : Delete("A", i)
  \/ Tick(ClockTimes)
  \/ NextDay(ClockTimes)

SpecTimes == InitTimes /\ [][NextTimes]_vars

----------------------------------------------------------------------------
(* Properties: helpers *)

\* the non-template rows derived from template tid whose dueAt falls in the day
InstancesOn(st, tid, day) ==
  {r \in st : /\ ~r.isTemplate
              /\ r.templateId = Some(tid)
              /\ IsSome(r.dueAt)
              /\ DayOf(Val(r.dueAt)) = day}

\* the days on which some row of the table is due
DueDays(st) == {DayOf(Val(r.dueAt)) : r \in {x \in st : IsSome(x.dueAt)}}

\* s reads HH:MM with HH in 00..23 and MM in 00..59
WellFormedHM(s) ==
  /\ Len(s) = 5
  /\ s[3] = ":"
  /\ \A i \in {1, 2, 4, 5} : IsDigit(s[i])
  /\ 10 * DigitVal(s[1]) + DigitVal(s[2]) <= 23
  /\ 10 * DigitVal(s[4]) + DigitVal(s[5]) <= 59

HourIn(s) == 10 * DigitVal(s[1]) + DigitVal(s[2])
MinuteIn(s) == 10 * DigitVal(s[4]) + DigitVal(s[5])

\* the last response answers a GET that listed
Listed == resp.method = "GET" /\ resp.status = 200

\* the rows the last request created
Created == store \ resp.pre

----------------------------------------------------------------------------
(* Materialization (SpecTimes) *)

\* C1: after a GET list call by a user with one DAILY template (so after each of N
\* calls in a row), exactly one non-template row of that template is due on the
\* day of the call, whatever timeOfDay string the template carries.
C1_IdempotentMaterialization ==
  (Listed /\ Cardinality(DailyTemplates(store, resp.caller)) = 1) =>
     \A t \in DailyTemplates(store, resp.caller) :
        Cardinality(InstancesOn(store, t.id, resp.day)) = 1

\* C3: for each template and each calendar day there is at most one non-template
\* row of that template due on that day.
C3_AtMostOnePerDay ==
  \A t \in {r \in store : r.isTemplate} :
     \A d \in DueDays(store) : Cardinality(InstancesOn(store, t.id, d)) <= 1

\* C4: every instance a GET creates is due on the day of the GET, at the hour and
\* minute of its template's timeOfDay HH:MM (09:00 when the template has none).
C4_PerDayScoping ==
  resp.method = "GET" =>
     \A r \in Created :
        \A t \in {x \in resp.pre : Some(x.id) = r.templateId} :
           /\ t.timeOfDay = Null => r.dueAt = Some(SetHours(resp.day, 9, 0))
           /\ (IsSome(t.timeOfDay) /\ WellFormedHM(Val(t.timeOfDay))) =>
                 r.dueAt = Some(SetHours(resp.day, HourIn(Val(t.timeOfDay)),
                                         MinuteIn(Val(t.timeOfDay))))

\* the last response answers the create dialog's POST of a DAILY todo with a
\* well-formed timeOfDay and no dueDate
PostedTemplate ==
  /\ resp.method = "POST"
  /\ resp.status = 201
  /\ Val(resp.body).recurrence = Some("DAILY")
  /\ Val(resp.body).dueDate = Null
  /\ IsSome(Val(resp.body).timeOfDay)
  /\ WellFormedHM(Val(Val(resp.body).timeOfDay))

\* C5: the GET that follows the POST of {title, recurrence: DAILY, timeOfDay: t}
\* returns exactly one row derived from the template created, with its title,
\* isTemplate = false, completed = false and dueAt = the day of the GET at t.
C5_TemplateScenario ==
  [][(PostedTemplate /\ resp'.n = resp.n + 1 /\ resp'.method = "GET"
        /\ resp'.caller = resp.caller /\ resp'.status = 200) =>
       LET T       == resp.todos[1]
           t       == Val(Val(resp.body).timeOfDay)
           derived == {i \in 1..Len(resp'.todos) : resp'.todos[i].templateId = Some(T.id)}
       IN  /\ Cardinality(derived) = 1
           /\ \A i \in derived :
                 /\ resp'.todos[i].title = Val(resp.body).title
                 /\ ~resp'.todos[i].isTemplate
                 /\ ~resp'.todos[i].completed
                 /\ resp'.todos[i].dueAt = Some(SetHours(resp'.day, HourIn(t), MinuteIn(t)))]_vars

----------------------------------------------------------------------------
(* Cascading delete and isolation (Spec) *)

\* the last response answers a successful DELETE of row R, owned by the caller
DeletedOK(R) ==
  /\ resp.method = "DELETE"
  /\ resp.status = 200
  /\ R \in resp.pre
  /\ resp.id = Some(R.id)
  /\ R.userId = resp.caller

\* C6: after a successful DELETE of a template R (isTemplate = true, templateId =
\* null), R and every row of that user with templateId = R.id are gone, whatever
\* their day or completed flag, and every other row is as it was.
C6_TemplateDeleteCascades ==
  \A R \in resp.pre :
     (DeletedOK(R) /\ R.isTemplate /\ R.templateId = Null) =>
        store = {x \in resp.pre :
                   x.id # R.id /\ ~(x.userId = resp.caller /\ x.templateId = Some(R.id))}

\* a template with instances due on two different days was deleted
C6_Witness ==
  \E R \in resp.pre :
     /\ DeletedOK(R) /\ R.isTemplate /\ R.templateId = Null
     /\ \E i1, i2 \in resp.pre :
           /\ i1.templateId = Some(R.id) /\ i2.templateId = Some(R.id)
           /\ DayOf(Val(i1.dueAt)) # DayOf(Val(i2.dueAt))
     /\ R \notin store

\* C7: after a successful DELETE of a row R whose templateId is set, the template
\* with that id and every row of that user sharing the templateId (R too) are
\* gone, and every other row is as it was.
C7_InstanceDeleteCascades ==
  \A R \in resp.pre :
     (DeletedOK(R) /\ IsSome(R.templateId)) =>
        store = {x \in resp.pre :
                   x.id # Val(R.templateId)
                   /\ ~(x.userId = resp.caller /\ x.templateId = R.templateId)}

\* an instance was deleted whose template had another instance
C7_Witness ==
  \E R \in resp.pre :
     /\ DeletedOK(R) /\ IsSome(R.templateId)
     /\ \E sib \in resp.pre : sib.id # R.id /\ sib.templateId = R.templateId
     /\ \E tpl \in resp.pre : Some(tpl.id) = R.templateId /\ tpl \notin store
     /\ R \notin store

\* C9: a request of an authenticated caller leaves the rows of every other user
\* as they were, and every row in its response is owned by the caller.
C9_ScopingIsolation ==
  resp.caller \in Users =>
     /\ \A b \in Users \ {resp.caller} :
           {r \in store : r.userId = b} = {r \in resp.pre : r.userId = b}
     /\ \A i \in 1..Len(resp.todos) : resp.todos[i].userId = resp.caller

\* a PUT and a DELETE that carried the id of another user's row
C9_Witness ==
  /\ resp.method \in {"PUT", "DELETE"}
  /\ resp.caller \in Users
  /\ \E r \in store : resp.id = Some(r.id) /\ r.userId # resp.caller

----------------------------------------------------------------------------
(* GET and DELETE store call by store call.  A slot holds a request in flight:
   where it stands (pc) and what it has read so far.  POST and PUT make one
   store call each, so Post and Put above are their steps. *)

\* requests answered or in flight in the step-wise specifications
MaxStepOps == 4

InFlight == {s \in Slots : flight[s].pc # "idle"}

NoneInFlight == InFlight = {}

MayStart(s) ==
  /\ flight[s].pc = "idle"
  /\ resp.n + Cardinality(InFlight) < MaxStepOps

\* the request of slot s ends with this response
Finish(s, status, todos, threw) ==
  /\ resp' = RespondFrom(flight[s].pre, flight[s].day, flight[s].caller, flight[s].method,
                         status, flight[s].id, Null, Null, todos, threw)
  /\ flight' = [flight EXCEPT ![s] = Idle]

\* GET: findMany of the templates, then now = new Date()
StartGet(s, u) ==
  /\ MayStart(s)
  /\ flight' = [flight EXCEPT ![s] =
                  [pc |-> "loop", method |-> "GET", caller |-> u, id |-> Null, pre |-> store,
                   day |-> now.day, tpls |-> RowsById(DailyTemplates(store, u))]]
  /\ UNCHANGED <<store, nextId, now, resp>>

\* const exists = await prisma.todo.findFirst(...) for the next template
GetFindFirst(s) ==
  /\ flight[s].pc = "loop"
  /\ flight[s].tpls # << >>
  /\ flight' = [flight EXCEPT ![s] =
                  IF TodayInstances(store, @.caller, Head(@.tpls).id, @.day) # {}
                  THEN [@ EXCEPT !.tpls = Tail(@)]
                  ELSE [@ EXCEPT !.pc = "create"]]
  /\ UNCHANGED <<store, nextId, now, resp>>

\* await prisma.todo.create(...) of the instance of the template as it was read
GetCreate(s) ==
  /\ flight[s].pc = "create"
  /\ nextId <= MaxIds
  /\ store' = store \cup {CreateRow(nextId, InstanceData(Head(flight[s].tpls), flight[s].caller,
                                                         flight[s].day))}
  /\ nextId' = nextId + 1
  /\ flight' = [flight EXCEPT ![s] = [@ EXCEPT !.pc = "loop", !.tpls = Tail(@)]]
  /\ UNCHANGED <<now, resp>>

\* the loop is through: findMany of the listing, the sort and the response
GetList(s) ==
  /\ flight[s].pc = "loop"
  /\ flight[s].tpls = << >>
  /\ resp' = GetResponse(flight[s].pre, flight[s].day, store, flight[s].caller, Null, Null)
  /\ flight' = [flight EXCEPT ![s] = Idle]
  /\ UNCHANGED <<store, nextId, now>>

\* the pc at which DELETE goes on for the row it found
DeletePc(todo) ==
  CASE DeleteBranch(todo) = "instance" -> "delTemplate"
    [] DeleteBranch(todo) = "template" -> "delCascade"
    [] OTHER -> "delOne"

\* DELETE: findUnique, 404 when the row is not the caller's
StartDelete(s, u, id) ==
  /\ MayStart(s)
  /\ LET found == FindOwned(store, u, id)
     IN  IF found = {}
         THEN /\ resp' = Respond(u, "DELETE", 404, Some(id), Null, Null, << >>, "")
              /\ UNCHANGED flight
         ELSE /\ flight' = [flight EXCEPT ![s] =
                              [pc |-> DeletePc(CHOOSE r \in found : TRUE), method |-> "DELETE",
                               caller |-> u, id |-> Some(id), pre |-> store, day |-> now.day,
                               todo |-> CHOOSE r \in found : TRUE]]
              /\ UNCHANGED resp
  /\ UNCHANGED <<store, nextId, now>>

\* await prisma.todo.delete({ where: { id: todo.templateId, userId } })
DelTemplate(s) ==
  /\ flight[s].pc = "delTemplate"
  /\ LET tpl == FindOwned(store, flight[s].caller, Val(flight[s].todo.templateId))
     IN  IF tpl = {}
         THEN /\ Finish(s, 500, << >>, "delete")
              /\ UNCHANGED store
         ELSE /\ store' = DeleteRows(store, tpl)
              /\ flight' = [flight EXCEPT ![s] = [@ EXCEPT !.pc = "delInstances"]]
              /\ UNCHANGED resp
  /\ UNCHANGED <<nextId, now>>

\* await prisma.todo.deleteMany({ where: { templateId: todo.templateId, userId } })
DelInstances(s) ==
  /\ flight[s].pc = "delInstances"
  /\ store' = DeleteRows(store, InstancesOf(store, flight[s].caller,
                                           Val(flight[s].todo.templateId)))
  /\ Finish(s, 200, << >>, "")
  /\ UNCHANGED <<nextId, now>>

\* await prisma.todo.deleteMany({ where: { OR: [{ id }, { templateId: id }], userId } })
DelCascade(s) ==
  /\ flight[s].pc = "delCascade"
  /\ store' = DeleteRows(store, TemplateAndChildren(store, flight[s].caller, Val(flight[s].id)))
  /\ Finish(s, 200, << >>, "")
  /\ UNCHANGED <<nextId, now>>

\* await prisma.todo.delete({ where: { id, userId } })
DelOne(s) ==
  /\ flight[s].pc = "delOne"
  /\ LET row == FindOwned(store, flight[s].caller, Val(flight[s].id))
     IN  IF row = {}
         THEN /\ Finish(s, 500, << >>, "delete")
              /\ UNCHANGED store
         ELSE /\ store' = DeleteRows(store, row)
              /\ Finish(s, 200, << >>, "")
  /\ UNCHANGED <<nextId, now>>

\* the store call a request in flight makes next
PendingCall(f) ==
  CASE f.pc = "loop" -> IF f.tpls # << >> THEN "findFirst" ELSE "findMany"
    [] f.pc = "create" -> "create"
    [] f.pc = "delTemplate" -> "delete"
    [] f.pc = "delInstances" -> "deleteMany"
    [] f.pc = "delCascade" -> "deleteMany"
    [] f.pc = "delOne" -> "delete"

\* the store fails a call (connectivity, timeout): the call throws and the catch
\* answers 500
StoreThrows(s) ==
  /\ flight[s].pc # "idle"
  /\ Finish(s, 500, << >>, PendingCall(flight[s]))
  /\ UNCHANGED <<store, nextId, now>>

StepsPostBodies == DialogPosts({T0730})

\* the request steps of slot s
Step(s) ==
  \/ GetFindFirst(s)
  \/ GetCreate(s)
  \/ GetList(s)
  \/ DelTemplate(s)
  \/ DelInstances(s)
  \/ DelCascade(s)
  \/ DelOne(s)

----------------------------------------------------------------------------
(* SpecSteps: the requests of one user interleave store call by store call *)

NextSteps ==
  \/ \E s \in Slots : StartGet(s, "A")
  \/ \E s \in Slots, i \in Ids : StartDelete(s, "A", i)
  \/ \E s \in Slots : Step(s)
  \/ \E b \in StepsPostBodies : resp.n + Cardinality(InFlight) < MaxStepOps /\ Post("A", b)
  \/ NextDay(Evening)

SpecSteps == Init /\ [][NextSteps]_vars

----------------------------------------------------------------------------
(* SpecFaults: one request at a time, and the store may fail any call *)

NextFaults ==
  \/ NoneInFlight /\ StartGet("s1", "A")
  \/ \E i \in Ids : NoneInFlight /\ StartDelete("s1", "A", i)
  \/ Step("s1")
  \/ StoreThrows("s1")
  \/ \E b \in StepsPostBodies : NoneInFlight /\ resp.n < MaxStepOps /\ Post("A", b)
  \/ NextDay(Evening)

SpecFaults == Init /\ [][NextFaults]_vars

----------------------------------------------------------------------------
(* Races (SpecSteps) and store failures (SpecFaults) *)

\* C2: once the interleaved GET calls of a user have completed, each of the
\* user's DAILY templates has at most one instance due today.
C2_ConcurrentCreate ==
  NoneInFlight =>
     \A t \in DailyTemplates(store, "A") :
        Cardinality(InstancesOn(store, t.id, now.day)) <= 1

\* C8: a cascading DELETE in which a store call failed leaves the table as the
\* request found it, and between requests no row refers to a template that is gone.
C8_CascadeAtomicity ==
  /\ (NoneInFlight /\ resp.method = "DELETE" /\ resp.threw # "") => store = resp.pre
  /\ NoneInFlight =>
        \A r \in store : IsSome(r.templateId) => \E t \in store : Some(t.id) = r.templateId

\* C10: a GET list call in which the create of one template's instance failed
\* still answers 200 with the caller's non-template rows.
C10_ReconciliationFailureIsolated ==
  (resp.method = "GET" /\ resp.threw = "create") =>
     /\ resp.status = 200
     /\ \A r \in ListWhere(resp.pre, resp.caller, Null) :
           \E i \in 1..Len(resp.todos) : resp.todos[i] = r


----------------------------------------------------------------------------
(* The listing, not-found and the shape of rows *)

\* the positions of a listing whose row derives from template tid
DerivedIn(todos, tid) == {i \in 1..Len(todos) : todos[i].templateId = Some(tid)}

\* C11: the response of a GET list call without a completed filter holds, for every
\* DAILY template the caller owns at that moment, exactly one row whose templateId
\* is that template's id.
C11_TodaysView ==
  (Listed /\ resp.completed = Null) =>
     \A t \in DailyTemplates(store, resp.caller) :
        Cardinality(DerivedIn(resp.todos, t.id)) = 1

\* C12: a PUT whose id names no row, or a row of another user, answers 404 and
\* leaves the table as it was.
C12_UpdateNotFound ==
  (/\ resp.method = "PUT"
   /\ IsSome(resp.id)
   /\ ~\E r \in resp.pre : r.id = Val(resp.id) /\ r.userId = resp.caller) =>
     (resp.status = 404 /\ store = resp.pre)


----------------------------------------------------------------------------
(* SpecShapes: one user, requests arriving at 18:00, bodies that vary the title,
   recurrence and isTemplate of POST and PUT *)

TitleBlank == <<" ">>

\* POST bodies: each title alone, each recurrence with each isTemplate, and a
\* one-off with a timeOfDay
ShapesPostBodies ==
  {PostBody(t, Null, Null, Null, Null, Null) : t \in {TitleEmpty, TitleBlank}}
  \cup {PostBody(TitleOK, r, i, Null, Null, Null) :
          r \in {Null, Some("NONE"), Some("DAILY")}, i \in {Null, Some(TRUE)}}
  \cup {PostBody(TitleOK, Null, Null, Some(T0730), Null, Null)}

PutTitle(titles) == {[b EXCEPT !.title = Some(t)] : b \in PutWithId, t \in titles}

PutRecurrence(recs) == {[b EXCEPT !.recurrence = Some(r)] : b \in PutWithId, r \in recs}

\* what the edit dialog sends: id, title, notes, timeOfDay, recurrence, tags
EditDialogPuts(times) ==
  {[b EXCEPT !.title = Some(TitleOK), !.notes = Some(Null), !.timeOfDay = Some(t),
             !.recurrence = Some(r), !.tags = Some(<< >>)] :
      b \in PutWithId, t \in times, r \in {"NONE", "DAILY"}}

ShapesPutBodies ==
  PutTitle({TitleEmpty}) \cup PutRecurrence({"NONE"}) \cup PutIsTemplate \cup EditDialogPuts({T0730})

NextShapes ==
  \/ Get("A", Null, Null)
  \/ \E b \in ShapesPostBodies : Post("A", b)
  \/ \E b \in ShapesPutBodies : Put("A", b)
  \/ \E i \in DeleteIds : Delete("A", i)
  \/ NextDay(Evening)

SpecShapes == Init /\ [][NextShapes]_vars


----------------------------------------------------------------------------
(* Shapes of rows, creation and validation (SpecShapes) *)

\* C13: every row with isTemplate = true has recurrence = DAILY and templateId = null.
C13_TemplateShape ==
  \A r \in store : r.isTemplate => (r.recurrence = "DAILY" /\ r.templateId = Null)

\* C14: every row with templateId set has isTemplate = false and recurrence = NONE.
C14_InstanceShape ==
  \A r \in store : IsSome(r.templateId) => (~r.isTemplate /\ r.recurrence = "NONE")


\* the last response answers a POST that passed validation, and the body it carried
Posted == resp.method = "POST" /\ resp.status = 201

\* C15: a POST with recurrence = DAILY, or with isTemplate = true in the body
\* whatever its recurrence, persists exactly one row, with isTemplate = true,
\* recurrence = DAILY, templateId = null and no dueAt; any other valid POST persists
\* exactly one row, with isTemplate = false, recurrence = NONE and templateId = null.
C15_CreationMode ==
  /\ (resp.method = "POST" /\ Val(resp.body).title = TitleOK) => resp.status = 201
  /\ Posted =>
        /\ resp.pre \subseteq store
        /\ Cardinality(Created) = 1
        /\ \A r \in Created :
              IF Val(resp.body).recurrence = Some("DAILY") \/ Val(resp.body).isTemplate = Some(TRUE)
              THEN r.isTemplate /\ r.recurrence = "DAILY" /\ r.templateId = Null /\ r.dueAt = Null
              ELSE ~r.isTemplate /\ r.recurrence = "NONE" /\ r.templateId = Null

\* a POST with isTemplate = true and recurrence NONE created a template, and a POST
\* with neither created a one-off, beside rows already there
C15_Witness ==
  /\ Posted
  /\ Val(resp.body).isTemplate = Some(TRUE)
  /\ Val(resp.body).recurrence = Some("NONE")
  /\ \E r \in Created : r.isTemplate
  /\ \E r \in resp.pre : ~r.isTemplate /\ r.templateId = Null /\ r.recurrence = "NONE"


\* C16: a POST that creates a one-off with an explicit timeOfDay HH:MM stores dueAt
\* = the day of the request at hour HH and minute MM, whatever the wall clock shows.
C16_OneOffDueTime ==
  (/\ Posted
   /\ ~IsTemplatePost(Val(resp.body))
   /\ IsSome(Val(resp.body).timeOfDay)
   /\ WellFormedHM(Val(Val(resp.body).timeOfDay))) =>
     \A r \in Created :
        r.dueAt = Some(SetHours(resp.day, HourIn(Val(Val(resp.body).timeOfDay)),
                                MinuteIn(Val(Val(resp.body).timeOfDay))))


\* the title is empty once trimmed
BlankTitle(title) == \A i \in 1..Len(title) : IsSpace(title[i])

\* C17: a POST whose title is empty or only white space is answered 400 and
\* persists no row.
C17_TitleValidation ==
  (resp.method = "POST" /\ BlankTitle(Val(resp.body).title)) =>
     (resp.status = 400 /\ store = resp.pre)

\* C18: every stored row has a non-empty title, and a PUT carrying an empty title
\* for a row of the caller is answered 400 and changes nothing.
C18_NonEmptyTitle ==
  /\ \A r \in store : r.title # << >>
  /\ (/\ resp.method = "PUT"
      /\ Val(resp.body).title = Some(<< >>)
      /\ \E r \in resp.pre : Some(r.id) = resp.id /\ r.userId = resp.caller) =>
        (resp.status = 400 /\ store = resp.pre)


----------------------------------------------------------------------------
(* The order of the listing *)

\* the hour:minute component of an instant, in minutes
TimeOfDayOf(t) == 60 * HourOf(t) + MinuteOf(t)

\* C19: the rows of a GET list response are in ascending order of the hour:minute
\* component of dueAt, also when they are due on different calendar days.
C19_SortByTimeOfDay ==
  Listed =>
     \A i, j \in 1..Len(resp.todos) :
        (i < j /\ IsSome(resp.todos[i].dueAt) /\ IsSome(resp.todos[j].dueAt)) =>
           TimeOfDayOf(Val(resp.todos[i].dueAt)) <= TimeOfDayOf(Val(resp.todos[j].dueAt))

----------------------------------------------------------------------------
(* SpecFilter: two users, listings with a completed filter and a limit *)

CompletedParams == {Null, Some("true"), Some("false")}

Limits == {Null, Some(<<"1">>)}

FilterPutBodies == {[b EXCEPT !.completed = Some(f)] : b \in PutWithId, f \in BOOLEAN}

Verbs == {"GET", "POST", "PUT", "DELETE"}

NextFilter ==
  \/ \E m \in Verbs : Unauthorized(m)
  \/ \E u \in Users, c \in CompletedParams, l \in Limits : Get(u, c, l)
  \/ \E u \in Users, b \in DialogPosts({T0730}) : Post(u, b)
  \/ \E u \in Users, b \in FilterPutBodies : Put(u, b)
  \/ \E u \in Users, i \in DeleteIds : Delete(u, i)

SpecFilter == Init /\ [][NextFilter]_vars

\* the rows of the table the listing of the last GET was asked for
Matching ==
  {r \in store : /\ r.userId = resp.caller
                 /\ ~r.isTemplate
                 /\ (resp.completed = Some("true") => r.completed)
                 /\ (resp.completed = Some("false") => ~r.completed)}

\* C21: every row of a GET list response is a non-template row of the caller with
\* the completed value the query asked for; and when no more rows match than the
\* limit lets through, the response holds every such row: a one-off that a PUT has
\* completed is listed with completed=true and not with completed=false.
C21_ListFilter ==
  Listed =>
     /\ \A i \in 1..Len(resp.todos) : resp.todos[i] \in Matching
     /\ Cardinality(Matching) <= 1 => \A r \in Matching : \E i \in 1..Len(resp.todos) : resp.todos[i] = r

\* a listing with completed=true that holds a one-off a PUT has completed, while a
\* row of the caller that is not completed stays out of it
C21_Witness ==
  /\ Listed
  /\ resp.completed = Some("true")
  /\ \E i \in 1..Len(resp.todos) :
        /\ resp.todos[i].completed
        /\ resp.todos[i].templateId = Null
        /\ resp.todos[i].recurrence = "NONE"
  /\ \E r \in store : r.userId = resp.caller /\ ~r.isTemplate /\ ~r.completed


\* C22: a request of any verb without an authenticated user is answered 401, and
\* it leaves the table as it was and returns no row.
C22_AuthenticationGate ==
  (resp.n > 0 /\ resp.caller = "") =>
     (resp.status = 401 /\ store = resp.pre /\ resp.todos = << >>)

\* a DELETE without a session was answered while the table held rows
C22_Witness ==
  /\ resp.caller = ""
  /\ resp.method = "DELETE"
  /\ resp.status = 401
  /\ store # {}


----------------------------------------------------------------------------
(* Materialization, update and delete: what a request touches *)

\* the rows the last request added to the table: their ids were not in it
NewRows == {r \in store : \A p \in resp.pre : p.id # r.id}

\* C23: only a GET creates rows with templateId set, and each such row is due on
\* the server-local day of the GET that created it (so no instance is ever created
\* for a day other than the day of the call).
C23_LazyTodayOnly ==
  \A r \in NewRows :
     IsSome(r.templateId) =>
        (resp.method = "GET" /\ IsSome(r.dueAt) /\ DayOf(Val(r.dueAt)) = resp.day)


----------------------------------------------------------------------------
(* SpecUpdate: one user, PUT with every timeOfDay string and without one,
   at several times of day *)

UpdatePutBodies == PutTimeOfDay(TimeStrings) \cup PutCompleted \cup PutTitle({TitleOK})

NextUpdate ==
  \/ Get("A", Null, Null)
  \/ \E b \in DialogPosts({T0730}) : Post("A", b)
  \/ \E b \in UpdatePutBodies : Put("A", b)
  \/ NextDay(ClockTimes)

SpecUpdate == InitTimes /\ [][NextUpdate]_vars

\* the last response answers a PUT that updated a row
Updated == resp.method = "PUT" /\ resp.status = 200

\* the row a PUT named, as the request found it
Before == {r \in resp.pre : Some(r.id) = resp.id /\ r.userId = resp.caller}

\* s reads dd:dd
TwoAndTwo(s) == Len(s) = 5 /\ s[3] = ":" /\ \A i \in {1, 2, 4, 5} : IsDigit(s[i])

\* s holds no digit
NoDigit(s) == \A i \in 1..Len(s) : ~IsDigit(s[i])

\* C24: a successful PUT that carries a string timeOfDay sets the row's dueAt to
\* today's date, at the hour and minute read from the string, a part that is
\* missing or no number counting as 0; a PUT without timeOfDay leaves dueAt alone.
C24_UpdateRecomputesDueAt ==
  Updated =>
     LET tod == Val(resp.body).timeOfDay
         R   == resp.todos[1]
     IN  /\ (IsSome(tod) /\ TwoAndTwo(Val(tod))) =>
               /\ IsSome(R.dueAt)
               /\ DayOf(Val(R.dueAt)) = resp.day
               /\ HourOf(Val(R.dueAt)) = HourIn(Val(tod))
               /\ MinuteOf(Val(R.dueAt)) = MinuteIn(Val(tod))
         /\ (IsSome(tod) /\ NoDigit(Val(tod))) => R.dueAt = Some(StartOfDay(resp.day))
         /\ tod = Null => \A b \in Before : R.dueAt = b.dueAt
         /\ R \in store


\* C25: a successful PUT on row R changes only R, and on R only the fields the body
\* carries among title, notes, tags, completed, timeOfDay, recurrence, isTemplate
\* (and dueAt when timeOfDay is carried): id, userId and templateId stay, and so do
\* R's template, its sibling instances and every other row.
C25_UpdateFrame ==
  Updated =>
     LET body == Val(resp.body)
         R    == resp.todos[1]
     IN  \E b \in Before :
            /\ store = (resp.pre \ {b}) \cup {R}
            /\ R.id = b.id /\ R.userId = b.userId /\ R.templateId = b.templateId
            /\ body.title = Null => R.title = b.title
            /\ body.notes = Null => R.notes = b.notes
            /\ body.tags = Null => R.tags = b.tags
            /\ body.completed = Null => R.completed = b.completed
            /\ body.timeOfDay = Null => (R.timeOfDay = b.timeOfDay /\ R.dueAt = b.dueAt)
            /\ body.recurrence = Null => R.recurrence = b.recurrence
            /\ body.isTemplate = Null => R.isTemplate = b.isTemplate

\* a PUT changed the timeOfDay of an instance whose template and whose sibling of
\* another day are in the table
C25_Witness ==
  /\ Updated
  /\ IsSome(Val(resp.body).timeOfDay)
  /\ \E b \in Before :
        /\ IsSome(b.templateId)
        /\ b.timeOfDay # resp.todos[1].timeOfDay
        /\ \E t \in store : Some(t.id) = b.templateId /\ t.isTemplate
        /\ \E sib \in store : sib.id # b.id /\ sib.templateId = b.templateId


\* C26: a successful DELETE of a row with templateId = null and isTemplate = false
\* removes exactly that row: every other row of every user is as it was.
C26_OneOffDeleteFrame ==
  \A R \in resp.pre :
     (DeletedOK(R) /\ R.templateId = Null /\ ~R.isTemplate) => store = resp.pre \ {R}

\* a one-off that had been a template was deleted, and the row that names it as
\* its template stayed
C26_Witness ==
  \E R \in resp.pre :
     /\ DeletedOK(R) /\ R.templateId = Null /\ ~R.isTemplate
     /\ R \notin store
     /\ \E r \in store : r.templateId = Some(R.id)


\* C27: every instance a GET creates carries the timeOfDay its template has at that
\* moment.
C27_InstanceTimeOfDay ==
  resp.method = "GET" =>
     \A r \in NewRows :
        \A t \in {x \in resp.pre : Some(x.id) = r.templateId} : r.timeOfDay = t.timeOfDay


\* C28: every row with templateId set names a row of the same user that is in the
\* table, and a DELETE of a row the caller owns is answered 200 and leaves that row
\* absent.
C28_NoDanglingReference ==
  /\ \A r \in store :
        IsSome(r.templateId) =>
           \E t \in store : Some(t.id) = r.templateId /\ t.userId = r.userId
  /\ resp.method = "DELETE" =>
        \A R \in resp.pre :
           (Some(R.id) = resp.id /\ R.userId = resp.caller) =>
              (resp.status = 200 /\ R \notin store)


----------------------------------------------------------------------------
(* A listing racing a cascading delete (SpecSteps) *)

\* the instances of the caller whose template is not in the table
Orphans(st, userId) ==
  {r \in st : /\ r.userId = userId
              /\ IsSome(r.templateId)
              /\ ~\E t \in st : Some(t.id) = r.templateId}

\* C29: once a GET list call and a cascading DELETE that ran interleaved have both
\* completed, no row names in templateId a template that the DELETE removed.
C29_ListDeleteRace == NoneInFlight => Orphans(store, "A") = {}


----------------------------------------------------------------------------
(* Day rollover (SpecTimes) *)

\* the templates of the caller that, as the last GET found the table, had an
\* instance due the day before the call and none due on the day of the call
RolledOver ==
  {t \in DailyTemplates(resp.pre, resp.caller) :
     /\ InstancesOn(resp.pre, t.id, resp.day - 1) # {}
     /\ InstancesOn(resp.pre, t.id, resp.day) = {}}

\* C30: the first GET on day D+1 for a template with an instance due on day D
\* creates exactly one instance of it, due on D+1 and not completed, and leaves the
\* instance of day D as it was, still in the listing.
C30_DayRollover ==
  Listed =>
     \A t \in RolledOver :
        /\ Cardinality({r \in NewRows : r.templateId = Some(t.id)}) = 1
        /\ \A r \in NewRows :
              r.templateId = Some(t.id) =>
                 (IsSome(r.dueAt) /\ DayOf(Val(r.dueAt)) = resp.day /\ ~r.completed)
        /\ \A old \in InstancesOn(resp.pre, t.id, resp.day - 1) :
              old \in store /\ \E i \in 1..Len(resp.todos) : resp.todos[i] = old

====
